---- MODULE Spec2Model ----
(***************************************************************************)
(* The "random record" samplers of the trove-random notebooks:             *)
(*   - random_work_by_facets.ipynb : get_random_work (zone prober) and     *)
(*     get_random_work_from_zone (facet narrowing loop)                    *)
(*   - random_work_by_id.ipynb     : get_random_work_from_zone (work-id    *)
(*     prefix loop)                                                        *)
(*   - random_newspaper_article.ipynb : get_random_article                 *)
(* Every request is synchronous: an action sends one request, reads the    *)
(* answer the search service gives (a nondeterministic choice) and runs    *)
(* the code up to the next loop test.                                      *)
(* HelperSpec calls the helper functions get_facet_terms, get_facets and   *)
(* set_query on their own, on every argument of a bounded family.          *)
(* GetSpec follows one s.get call through the Retry the session mounts.    *)
(* FairSpec is Spec with every running call taking its next step.          *)
(* Zone2Spec calls the second copy of get_random_work_from_zone that        *)
(* random_work_by_facets.ipynb contains (lines 515-553).                    *)
(*                                                                         *)
(* Python strings are sequences of atoms (characters or whole words), so   *)
(* an f-string is a concatenation; None and '' of a string argument are    *)
(* both the empty sequence (the code only tests their truth value).        *)
(***************************************************************************)
EXTENDS Integers, Sequences, FiniteSets, TLC

VARIABLES
    prog,            \* which notebook function was called
    pc,              \* position in the called function
    query,           \* argument `query` of the running function
    add_word,        \* argument of get_random_work
    add_number,      \* argument of get_random_work
    zone,            \* argument `zone` (a comma-joined list of zone names)
    kwargs,          \* caller-supplied facets, in order: <<key, value>> pairs
    tries,           \* local `tries`
    zones,           \* local `zones` of get_random_work
    params,          \* local `params` of the running function
    total,           \* local `total`
    applied_facets,  \* local `applied_facets`
    facets,          \* local `facets`
    data,            \* local `data`: the last search response that was decoded
    random_id,       \* local `random_id` of the work-id loop
    random_sequence, \* local `random_sequence` of the work-id loop
    pos,             \* local `pos` of the work-id loop
    result,          \* the value returned
    last_request,    \* history: the parameters of the last request sent
    total_data,      \* history: the response `total` was last read from
    n_probes,        \* history: requests sent by the probing loop
    n_counts,        \* history: count requests (window 0) of the narrowing function
    n_pages,         \* history: page requests (window 100) sent
    n_applied,       \* history: narrowing iterations run
    n_facet_probes,  \* history: single-facet listing requests sent
    arg_terms,       \* argument `terms` of get_facet_terms called on its own
    facet_terms,     \* local `facet_terms` of get_facet_terms: what it returns
    retries,         \* the retries left to one s.get call (Retry.total)
    status,          \* the status of the last HTTP response to that call
    retry_after,     \* whether that response carried a Retry-After header
    n_gets           \* history: HTTP requests that call has put on the wire

vars == <<prog, pc, query, add_word, add_number, zone, kwargs, tries, zones,
          params, total, applied_facets, facets, data, random_id,
          random_sequence, pos, result, last_request, total_data,
          n_probes, n_counts, n_pages, n_applied, n_facet_probes,
          arg_terms, facet_terms, retries, status, retry_after, n_gets>>

-----------------------------------------------------------------------------
(* Values *)

None == "<None>"
NoString == <<>>
Missing == <<"<missing>">>

Range(s) == {s[i] : i \in 1..Len(s)}

Truthy(s) == Len(s) > 0

DigitChar == <<"0", "1", "2", "3", "4", "5", "6", "7", "8", "9">>

DigitValue(c) == (CHOOSE i \in 1..10 : DigitChar[i] = c) - 1

RECURSIVE str(_)
str(n) == IF n < 10 THEN <<DigitChar[n + 1]>>
          ELSE str(n \div 10) \o <<DigitChar[(n % 10) + 1]>>

RECURSIVE int(_)
int(s) == IF Len(s) = 1 THEN DigitValue(s[1])
          ELSE 10 * int(SubSeq(s, 1, Len(s) - 1)) + DigitValue(s[Len(s)])

\* f'{n:02}'
Format02(n) == IF n < 10 THEN <<"0">> \o str(n) ELSE str(n)

\* dict helpers: a dict is a function over the set of its keys
Put(d, k, v) == [x \in DOMAIN d \cup {k} |-> IF x = k THEN v ELSE d[x]]
Pop(d, k) == [x \in DOMAIN d \ {k} |-> d[x]]
Has(d, k) == k \in DOMAIN d

\* f'l-{key}'
LKey(key) ==
    CASE key = "format" -> "l-format"
      [] key = "year" -> "l-year"
      [] key = "decade" -> "l-decade"
      [] key = "advtitle" -> "l-advtitle"
      [] key = "month" -> "l-month"
      [] key = "word" -> "l-word"
      [] key = "illustrated" -> "l-illustrated"
      [] key = "category" -> "l-category"
      [] key = "title" -> "l-title"
      [] key = "state" -> "l-state"

\* name[:3]
First3(name) ==
    CASE name = "format" -> "for"
      [] name = "year" -> "yea"
      [] name = "decade" -> "dec"
      [] name = "advtitle" -> "adv"
      [] OTHER -> "???"

API_KEY == "YOUR API KEY"

-----------------------------------------------------------------------------
(* The session every notebook sends its requests through:                  *)
(* Retry(total=5, backoff_factor=1, status_forcelist=[502, 503, 504])      *)

RetryTotal == 5

StatusForcelist == {502, 503, 504}

\* urllib3's Retry.RETRY_AFTER_STATUS_CODES; respect_retry_after_header is
\* left at its default (True)
RETRY_AFTER_STATUS_CODES == {413, 429, 503}

\* the statuses a response may have
Statuses == {200, 400, 404, 413, 429, 500, 502, 503, 504}

\* Retry.is_retry for a GET
is_retry(t, status_code, has_retry_after) ==
    \/ status_code \in StatusForcelist
    \/ t # 0 /\ has_retry_after /\ status_code \in RETRY_AFTER_STATUS_CODES

is_exhausted_AtZero(t) == t <= 0

\* Retry.is_exhausted: only a count below 0 is exhausted
is_exhausted(t) == t < 0

-----------------------------------------------------------------------------
(* The search service: what it may answer *)

STOPWORDS == <<"the", "of">>

RandomNumbers == {7, 42}

LiveZones == {"book", "article"}

AllZones == <<"book", "article", "picture", "map", "music", "collection">>

Totals == {<<"0">>, <<"1", "0", "0">>, <<"1", "0", "1">>}

RecordPool == {"r1", "r2"}

Pages == {<<"r1", "r2">>}

\* the term tree the service holds for each facet
FacetTerms(name) ==
    CASE name = "format" ->
            << [search |-> "Book",
                term |-> << [search |-> "Book/Illustrated"] >>] >>
      [] name = "year" -> << [search |-> "1901"] >>
      [] name = "decade" -> << [search |-> "190"] >>
      [] name = "advtitle" -> << [search |-> "35"] >>
      [] OTHER -> << [search |-> "x"] >>

FacetLists ==
    { <<>>, <<"year", "decade">>, <<"format", "year", "advtitle">> }

FacetNode(name) == [name |-> name, term |-> FacetTerms(name)]

\* the 'records' object of a zone
RecordsObject(t, key, page) ==
    [k \in (IF t = Missing THEN {} ELSE {"total"})
           \cup (IF page = Missing THEN {} ELSE {key})
        |-> IF k = "total" THEN t ELSE page]

\* one zone of a response; names = Missing: the zone has no 'facets' object
ZoneObject(name, recs, names) ==
    [k \in {"name", "records"} \cup (IF names = Missing THEN {} ELSE {"facets"})
        |-> CASE k = "name" -> name
              [] k = "records" -> recs
              [] k = "facets" ->
                    [facet |-> [i \in 1..Len(names) |-> FacetNode(names[i])]]]

Response(zs) == [response |-> [zone |-> zs]]

NoData == Response(<<>>)

\* the record list of a zone is under 'work', or 'article' for newspapers
RecordKey(z) == IF z = "newspaper" THEN "article" ELSE "work"

\* the record lists that may come with total t in a window of n
PagesFor(t, n) ==
    IF n = "0" \/ t = Missing \/ t = <<"0">> THEN {Missing}
    ELSE Pages \cup {Missing}

\* the answers to a search of one zone: the total may be absent, records
\* come only in a window of 100 and with a total above 0 (and may be absent
\* even then), and facets are listed only when the request asks for them
\* (and may be absent even then)
Answers(p) ==
    UNION { { Response(<< ZoneObject(p["zone"][1],
                                     RecordsObject(t, RecordKey(p["zone"][1]), page),
                                     names) >>) :
                page \in PagesFor(t, p["n"]),
                names \in (IF Has(p, "facet") THEN FacetLists \cup {Missing}
                           ELSE {Missing}) } :
            t \in Totals \cup {Missing} }

\* the answers to a search of several zones: a total for each zone asked for
ProbeAnswers(p) ==
    { Response([i \in 1..Len(p["zone"]) |->
                 ZoneObject(p["zone"][i],
                            RecordsObject(IF p["zone"][i] \in live
                                          THEN <<"7">> ELSE <<"0">>,
                                          "work", Missing),
                            Missing)]) :
        live \in SUBSET (LiveZones \cap Range(p["zone"])) }

-----------------------------------------------------------------------------
(* random_work_by_facets.ipynb *)

Zone0(d) == d.response.zone[1]

\* data['response']['zone'][0]['records']['total'] raises KeyError
TotalMissing(d) == ~Has(Zone0(d).records, "total")

\* int(data['response']['zone'][0]['records']['total'])
TotalOf(d) == int(Zone0(d).records["total"])

RECURSIVE get_facet_terms_ChildrenFirst(_)
get_facet_terms_ChildrenFirst(terms) ==
    IF terms = <<>> THEN <<>>
    ELSE LET term == Head(terms)
         IN  (IF Has(term, "term")
              THEN get_facet_terms_ChildrenFirst(term.term) ELSE <<>>)
             \o <<term.search>>
             \o get_facet_terms_ChildrenFirst(Tail(terms))

RECURSIVE get_facet_terms(_)
get_facet_terms(terms) ==
    IF terms = <<>> THEN <<>>
    ELSE LET term == Head(terms)
         IN  <<term.search>>
             \o (IF Has(term, "term") THEN get_facet_terms(term.term) ELSE <<>>)
             \o get_facet_terms(Tail(terms))

\* data['response']['zone'][0]['facets'] raises KeyError
FacetsMissing(d) == ~Has(Zone0(d), "facets")

Excluded_AdvOnly(name) == First3(name) = "adv"

\* line 78
Excluded(name) == First3(name) = "adv" \/ name = "decade"

RECURSIVE FacetEntries(_)
FacetEntries(fs) ==
    IF fs = <<>> THEN <<>>
    ELSE LET facet == Head(fs)
         IN  (IF ~Excluded(facet.name)
              THEN << [facet |-> facet.name,
                       terms |-> get_facet_terms(facet.term)] >>
              ELSE <<>>)
             \o FacetEntries(Tail(fs))

get_facets(d) == FacetEntries(Zone0(d).facets.facet)

NotApplied_Keep(fs, applied) == fs

\* the filter, had it dropped only the facet applied last
NotApplied_LastOnly(fs, applied) ==
    SelectSeq(fs, LAMBDA f : applied = <<>> \/ f.facet # applied[Len(applied)])

\* facets[:] = [f for f in facets if f.get('facet') not in applied_facets]
NotApplied(fs, applied) ==
    SelectSeq(fs, LAMBDA f : f.facet \notin Range(applied))

Quoted(s) == <<"\"">> \o s \o <<"\"">>

set_query_NoBaseCheck(p, q, aw, an, random_word, random_number) ==
    IF aw THEN Put(p, "q", q \o <<" ">> \o Quoted(<<random_word>>))
    ELSE IF Truthy(q)
         THEN IF an THEN Put(p, "q", q \o <<" ">> \o Quoted(Format02(random_number)))
              ELSE Put(p, "q", q)
         ELSE Put(p, "q", Quoted(<<random_word>>))

set_query_NumberFirst(p, q, aw, an, random_word, random_number) ==
    IF Truthy(q)
    THEN IF an THEN Put(p, "q", q \o <<" ">> \o Quoted(Format02(random_number)))
         ELSE IF aw THEN Put(p, "q", q \o <<" ">> \o Quoted(<<random_word>>))
         ELSE Put(p, "q", q)
    ELSE Put(p, "q", Quoted(<<random_word>>))

\* lines 84-99
set_query(p, q, aw, an, random_word, random_number) ==
    IF Truthy(q)
    THEN IF aw THEN Put(p, "q", q \o <<" ">> \o Quoted(<<random_word>>))
         ELSE IF an THEN Put(p, "q", q \o <<" ">> \o Quoted(Format02(random_number)))
         ELSE Put(p, "q", q)
    ELSE Put(p, "q", Quoted(<<random_word>>))

RECURSIVE WithKwargs(_, _)
WithKwargs(p, kw) ==
    IF kw = <<>> THEN p
    ELSE WithKwargs(Put(p, LKey(kw[1][1]), kw[1][2]), Tail(kw))

\* the applied list, had the caller's facets not been entered in it
Keys_None(kw) == <<>>

Keys(kw) == [i \in 1..Len(kw) |-> kw[i][1]]

get_zones_NotBelowZero(d) ==
    LET zs == d.response.zone
        RECURSIVE Walk(_)
        Walk(i) == IF i > Len(zs) THEN <<>>
                   ELSE (IF int(zs[i].records["total"]) >= 0
                         THEN <<zs[i].name>> ELSE <<>>) \o Walk(i + 1)
    IN  Walk(1)

get_zones(d) ==
    LET zs == d.response.zone
        RECURSIVE Walk(_)
        Walk(i) == IF i > Len(zs) THEN <<>>
                   ELSE (IF int(zs[i].records["total"]) > 0
                         THEN <<zs[i].name>> ELSE <<>>) \o Walk(i + 1)
    IN  Walk(1)

MaxTries == 10

WindowMax == 100

\* line 180
ProbeCond(zs, t) == Len(zs) = 0 /\ t <= MaxTries

NarrowCond_AtLeast(t, fs) == t >= WindowMax /\ Len(fs) > 0

\* the loop test, had it gone on narrowing an empty result set
NarrowCond_OrZero(t, fs) == (t > WindowMax \/ t = 0) /\ Len(fs) > 0

\* line 124
NarrowCond(t, fs) == t > WindowMax /\ Len(fs) > 0

-----------------------------------------------------------------------------
(* get_random_work: the zone prober *)

\* the calls of get_random_work that are followed
FacetsCalls ==
    { [zone |-> NoString, query |-> NoString, add_word |-> FALSE,
       add_number |-> FALSE, kwargs |-> <<>>],
      [zone |-> NoString, query |-> <<"cat">>, add_word |-> FALSE,
       add_number |-> TRUE, kwargs |-> <<>>],
      [zone |-> <<"book", "article">>, query |-> <<"cat">>, add_word |-> TRUE,
       add_number |-> TRUE, kwargs |-> <<>>],
      [zone |-> <<"book">>, query |-> NoString, add_word |-> FALSE,
       add_number |-> FALSE, kwargs |-> << <<"format", "Book">> >>],
      [zone |-> <<"book", "picture">>, query |-> <<"cat">>, add_word |-> FALSE,
       add_number |-> FALSE, kwargs |-> << <<"format", "Book">> >>] }

FacetsInit ==
    /\ prog = "facets"
    /\ \E c \in FacetsCalls :
         /\ zone = c.zone
         /\ query = c.query
         /\ add_word = c.add_word
         /\ add_number = c.add_number
         /\ kwargs = c.kwargs

\* lines 164-178: the locals, the first composition of the query, the
\* caller's facets
GetRandomWork_Call ==
    /\ prog = "facets" /\ pc = "call"
    /\ UNCHANGED <<arg_terms, facet_terms, retries, status, retry_after, n_gets>>
    /\ \E random_word \in Range(STOPWORDS), random_number \in RandomNumbers :
         params' = WithKwargs(
                     set_query([encoding |-> "json", n |-> "0", key |-> API_KEY,
                                zone |-> IF Truthy(zone) THEN zone ELSE AllZones],
                               query, add_word, FALSE, random_word, random_number),
                     kwargs)
    /\ tries' = 0
    /\ zones' = <<>>
    /\ pc' = "probe"
    /\ UNCHANGED <<prog, query, add_word, add_number, zone, kwargs, total,
                   applied_facets, facets, data, random_id, random_sequence,
                   pos, result, last_request, total_data, n_probes, n_counts,
                   n_pages, n_applied, n_facet_probes>>

\* the probing loop, had it composed each query from the last one sent
GetRandomWork_Probe_Accumulate ==
    /\ prog = "facets" /\ pc = "probe"
    /\ UNCHANGED <<arg_terms, facet_terms, retries, status, retry_after, n_gets>>
    /\ ProbeCond(zones, tries)
    /\ \E random_word \in Range(STOPWORDS), random_number \in RandomNumbers :
         params' = set_query(params, params["q"], add_word, add_number,
                             random_word, random_number)
    /\ last_request' = params'
    /\ n_probes' = n_probes + 1
    /\ data' \in ProbeAnswers(params')
    /\ zones' = get_zones(data')
    /\ tries' = tries + 1
    /\ UNCHANGED <<prog, pc, query, add_word, add_number, zone, kwargs, total,
                   applied_facets, facets, random_id, random_sequence, pos,
                   result, total_data, n_counts, n_pages, n_applied, n_facet_probes>>

\* the probing loop, had it kept the word-only query for its first request
GetRandomWork_Probe_NumberLater ==
    /\ prog = "facets" /\ pc = "probe"
    /\ UNCHANGED <<arg_terms, facet_terms, retries, status, retry_after, n_gets>>
    /\ ProbeCond(zones, tries)
    /\ \E random_word \in Range(STOPWORDS), random_number \in RandomNumbers :
         params' = set_query(params, query, add_word, add_number /\ tries > 0,
                             random_word, random_number)
    /\ last_request' = params'
    /\ n_probes' = n_probes + 1
    /\ data' \in ProbeAnswers(params')
    /\ zones' = get_zones(data')
    /\ tries' = tries + 1
    /\ UNCHANGED <<prog, pc, query, add_word, add_number, zone, kwargs, total,
                   applied_facets, facets, random_id, random_sequence, pos,
                   result, total_data, n_counts, n_pages, n_applied, n_facet_probes>>

\* lines 180-186: one iteration of the probing loop
GetRandomWork_Probe ==
    /\ prog = "facets" /\ pc = "probe"
    /\ UNCHANGED <<arg_terms, facet_terms, retries, status, retry_after, n_gets>>
    /\ ProbeCond(zones, tries)
    /\ \E random_word \in Range(STOPWORDS), random_number \in RandomNumbers :
         params' = set_query(params, query, add_word, add_number,
                             random_word, random_number)
    /\ last_request' = params'
    /\ n_probes' = n_probes + 1
    /\ data' \in ProbeAnswers(params')
    /\ zones' = get_zones(data')
    /\ tries' = tries + 1
    /\ UNCHANGED <<prog, pc, query, add_word, add_number, zone, kwargs, total,
                   applied_facets, facets, random_id, random_sequence, pos,
                   result, total_data, n_counts, n_pages, n_applied, n_facet_probes>>

HandedQuery_Base(p, q) == q

\* line 188: query=params['q']
HandedQuery(p, q) == p["q"]

\* lines 187-189: after the loop, hand one zone with results and the query
\* to get_random_work_from_zone, or fall off the end (return None)
GetRandomWork_Exit ==
    /\ prog = "facets" /\ pc = "probe"
    /\ UNCHANGED <<arg_terms, facet_terms, retries, status, retry_after, n_gets>>
    /\ ~ProbeCond(zones, tries)
    /\ IF Len(zones) > 0
       THEN /\ \E z \in Range(zones) : zone' = <<z>>
            /\ query' = HandedQuery(params, query)
            /\ pc' = "from_zone"
            /\ UNCHANGED result
       ELSE /\ result' = None
            /\ pc' = "done"
            /\ UNCHANGED <<zone, query>>
    /\ UNCHANGED <<prog, add_word, add_number, kwargs, tries, zones, params,
                   total, applied_facets, facets, data, random_id,
                   random_sequence, pos, last_request, total_data, n_probes,
                   n_counts, n_pages, n_applied, n_facet_probes>>

-----------------------------------------------------------------------------
(* get_random_work_from_zone: the facet narrowing loop *)

ZoneParams_Window100(z, q, kw) ==
    WithKwargs([zone |-> z, encoding |-> "json", n |-> "100", key |-> API_KEY,
                facet |-> "all", include |-> "links", q |-> q], kw)

\* lines 105-117
ZoneParams(z, q, kw) ==
    WithKwargs([zone |-> z, encoding |-> "json", n |-> "0", key |-> API_KEY,
                facet |-> "all", include |-> "links", q |-> q], kw)

\* lines 103-122: the locals, the first search, its total and its facets
FromZone_Start ==
    /\ prog = "facets" /\ pc = "from_zone"
    /\ UNCHANGED <<arg_terms, facet_terms, retries, status, retry_after, n_gets>>
    /\ applied_facets' = Keys(kwargs)
    /\ params' = ZoneParams(zone, query, kwargs)
    /\ last_request' = params'
    /\ n_counts' = n_counts + 1
    /\ data' \in Answers(params')
    /\ IF TotalMissing(data')
       THEN /\ total' = 0
            /\ facets' = <<>>
            /\ pc' = "raised"
            /\ UNCHANGED total_data
       ELSE /\ total' = TotalOf(data')
            /\ total_data' = data'
            /\ IF FacetsMissing(data')
               THEN facets' = <<>> /\ pc' = "raised"
               ELSE /\ facets' = NotApplied(get_facets(data'), applied_facets')
                    /\ pc' = "narrow"
    /\ UNCHANGED <<prog, query, add_word, add_number, zone, kwargs, tries,
                   zones, random_id, random_sequence, pos, result, n_probes,
                   n_pages, n_applied, n_facet_probes>>

\* an iteration that, on a response without a total, keeps the old total and
\* goes on
FromZone_Narrow_KeepTotal ==
    /\ prog = "facets" /\ pc = "narrow"
    /\ UNCHANGED <<arg_terms, facet_terms, retries, status, retry_after, n_gets>>
    /\ NarrowCond(total, facets)
    /\ \E new_facet \in Range(facets) :
         /\ applied_facets' = Append(applied_facets, new_facet.facet)
         /\ \E value \in Range(new_facet.terms) :
              params' = Put(params, LKey(new_facet.facet), value)
    /\ last_request' = params'
    /\ n_counts' = n_counts + 1
    /\ n_applied' = n_applied + 1
    /\ data' \in Answers(params')
    /\ IF FacetsMissing(data')
       THEN /\ pc' = "raised"
            /\ UNCHANGED <<facets, total, total_data>>
       ELSE /\ facets' = NotApplied(get_facets(data'), applied_facets')
            /\ IF TotalMissing(data')
               THEN pc' = "narrow" /\ UNCHANGED <<total, total_data>>
               ELSE /\ total' = TotalOf(data')
                    /\ total_data' = data'
                    /\ pc' = "narrow"
    /\ UNCHANGED <<prog, query, add_word, add_number, zone, kwargs, tries,
                   zones, random_id, random_sequence, pos, result, n_probes,
                   n_pages, n_facet_probes>>

\* an iteration that reads the total from the response before the last
FromZone_Narrow_StaleTotal ==
    /\ prog = "facets" /\ pc = "narrow"
    /\ UNCHANGED <<arg_terms, facet_terms, retries, status, retry_after, n_gets>>
    /\ NarrowCond(total, facets)
    /\ \E new_facet \in Range(facets) :
         /\ applied_facets' = Append(applied_facets, new_facet.facet)
         /\ \E value \in Range(new_facet.terms) :
              params' = Put(params, LKey(new_facet.facet), value)
    /\ last_request' = params'
    /\ n_counts' = n_counts + 1
    /\ n_applied' = n_applied + 1
    /\ data' \in Answers(params')
    /\ IF FacetsMissing(data')
       THEN /\ pc' = "raised"
            /\ UNCHANGED <<facets, total, total_data>>
       ELSE /\ facets' = NotApplied(get_facets(data'), applied_facets')
            /\ IF TotalMissing(data')
               THEN pc' = "raised" /\ UNCHANGED <<total, total_data>>
               ELSE /\ total' = TotalOf(data)
                    /\ total_data' = data
                    /\ pc' = "narrow"
    /\ UNCHANGED <<prog, query, add_word, add_number, zone, kwargs, tries,
                   zones, random_id, random_sequence, pos, result, n_probes,
                   n_pages, n_facet_probes>>

\* lines 124-139: one iteration of the narrowing loop
FromZone_Narrow ==
    /\ prog = "facets" /\ pc = "narrow"
    /\ UNCHANGED <<arg_terms, facet_terms, retries, status, retry_after, n_gets>>
    /\ NarrowCond(total, facets)
    /\ \E new_facet \in Range(facets) :
         /\ applied_facets' = Append(applied_facets, new_facet.facet)
         /\ \E value \in Range(new_facet.terms) :
              params' = Put(params, LKey(new_facet.facet), value)
    /\ last_request' = params'
    /\ n_counts' = n_counts + 1
    /\ n_applied' = n_applied + 1
    /\ data' \in Answers(params')
    /\ IF FacetsMissing(data')
       THEN /\ pc' = "raised"
            /\ UNCHANGED <<facets, total, total_data>>
       ELSE /\ facets' = NotApplied(get_facets(data'), applied_facets')
            /\ IF TotalMissing(data')
               THEN pc' = "raised" /\ UNCHANGED <<total, total_data>>
               ELSE /\ total' = TotalOf(data')
                    /\ total_data' = data'
                    /\ pc' = "narrow"
    /\ UNCHANGED <<prog, query, add_word, add_number, zone, kwargs, tries,
                   zones, random_id, random_sequence, pos, result, n_probes,
                   n_pages, n_facet_probes>>

PageParams_KeepFacet(p) == Put(p, "n", "100")

\* lines 143-145: params['n'] = '100'; params.pop('facet', None)
PageParams(p) == Pop(Put(p, "n", "100"), "facet")

\* the final step, had it asked for the count once more before the page
FromZone_Finish_CountAgain ==
    /\ prog = "facets" /\ pc = "narrow"
    /\ ~NarrowCond(total, facets)
    /\ IF total > 0
       THEN /\ params' = PageParams(params)
            /\ last_request' = params'
            /\ n_counts' = n_counts + 1
            /\ n_pages' = n_pages + 1
            /\ data' \in Answers(params')
            /\ LET records == Zone0(data').records
               IN  IF Has(records, "work") /\ Len(records["work"]) > 0
                   THEN /\ result' \in Range(records["work"])
                        /\ pc' = "done"
                   ELSE /\ pc' = "raised"
                        /\ UNCHANGED result
       ELSE /\ result' = None
            /\ pc' = "done"
            /\ UNCHANGED <<params, last_request, n_counts, n_pages, data>>
    /\ UNCHANGED <<prog, query, add_word, add_number, zone, kwargs, tries,
                   zones, total, applied_facets, facets, random_id,
                   random_sequence, pos, total_data, n_probes,
                   n_applied, n_facet_probes, arg_terms, facet_terms,
                   retries, status, retry_after, n_gets>>

\* lines 142-149: fetch the page and pick a work, or fall off the end
FromZone_Finish ==
    /\ prog = "facets" /\ pc = "narrow"
    /\ UNCHANGED <<arg_terms, facet_terms, retries, status, retry_after, n_gets>>
    /\ ~NarrowCond(total, facets)
    /\ IF total > 0
       THEN /\ params' = PageParams(params)
            /\ last_request' = params'
            /\ n_pages' = n_pages + 1
            /\ data' \in Answers(params')
            /\ LET records == Zone0(data').records
               IN  IF Has(records, "work") /\ Len(records["work"]) > 0
                   THEN /\ result' \in Range(records["work"])
                        /\ pc' = "done"
                   ELSE /\ pc' = "raised"
                        /\ UNCHANGED result
       ELSE /\ result' = None
            /\ pc' = "done"
            /\ UNCHANGED <<params, last_request, n_pages, data>>
    /\ UNCHANGED <<prog, query, add_word, add_number, zone, kwargs, tries,
                   zones, total, applied_facets, facets, random_id,
                   random_sequence, pos, total_data, n_probes, n_counts,
                   n_applied, n_facet_probes>>

-----------------------------------------------------------------------------
(* random_work_by_id.ipynb: get_random_work_from_zone, the work-id loop *)

NoneId == <<"None">>

\* what random.randrange(10000, 100000) may give
Bases == {10000, 54321}

\* what random.shuffle may leave in random_sequence
Shuffles == { <<7, 3, 9, 0, 4, 1, 8, 2, 6, 5>> }

MinSlice == 4

SequenceLen == 10

IdCalls == { [zone |-> <<"book">>, kwargs |-> <<>>],
             [zone |-> <<"book">>, kwargs |-> << <<"format", "Thesis">> >>] }

IdInit ==
    /\ prog = "id"
    /\ query = NoString
    /\ add_word = FALSE
    /\ add_number = FALSE
    /\ \E c \in IdCalls : zone = c.zone /\ kwargs = c.kwargs

IdCond_AtLeast(t) == t = 0 \/ t >= WindowMax

IdCond_NoCeiling(t) == t = 0

IdCond_TooManyOnly(t) == t > WindowMax

\* line 63
IdCond(t) == t = 0 \/ t > WindowMax

Shrink_FloorFour(t, id, fresh) ==
    IF t = 0 /\ id = NoneId THEN str(fresh)
    ELSE IF t = 0
         THEN IF Len(id) > MinSlice THEN SubSeq(id, 1, Len(id) - 1)
              ELSE str(fresh)
         ELSE id

Shrink_FromThree(t, id, fresh) ==
    IF t = 0 /\ id = NoneId THEN str(fresh)
    ELSE IF t = 0
         THEN IF Len(id) >= MinSlice - 1 THEN SubSeq(id, 1, Len(id) - 1)
              ELSE str(fresh)
         ELSE id

\* lines 64-70: the prefix after the zero-results branch
Shrink(t, id, fresh) ==
    IF t = 0 /\ id = NoneId THEN str(fresh)
    ELSE IF t = 0
         THEN IF Len(id) >= MinSlice THEN SubSeq(id, 1, Len(id) - 1)
              ELSE str(fresh)
         ELSE id

Grow_SameDigit(t, id, p, seq, fresh) ==
    IF t > WindowMax /\ p < SequenceLen
    THEN [random_id |-> id \o str(seq[1]), pos |-> p + 1]
    ELSE IF p = SequenceLen
         THEN [random_id |-> str(fresh), pos |-> 0]
         ELSE [random_id |-> id, pos |-> p]

\* the branch, had it appended the digit without moving the cursor
Grow_KeepCursor(t, id, p, seq, fresh) ==
    IF t > WindowMax /\ p < SequenceLen
    THEN [random_id |-> id \o str(seq[p + 1]), pos |-> p]
    ELSE IF p = SequenceLen
         THEN [random_id |-> str(fresh), pos |-> 0]
         ELSE [random_id |-> id, pos |-> p]

\* the branch, had it appended once more with the sequence used up
Grow_PastTen(t, id, p, seq, fresh) ==
    IF t > WindowMax /\ p <= SequenceLen
    THEN [random_id |-> id \o str(seq[(p % SequenceLen) + 1]), pos |-> p + 1]
    ELSE IF p = SequenceLen
         THEN [random_id |-> str(fresh), pos |-> 0]
         ELSE [random_id |-> id, pos |-> p]

\* lines 71-76: the prefix and the cursor after the too-many-results branch
Grow(t, id, p, seq, fresh) ==
    IF t > WindowMax /\ p < SequenceLen
    THEN [random_id |-> id \o str(seq[p + 1]), pos |-> p + 1]
    ELSE IF p = SequenceLen
         THEN [random_id |-> str(fresh), pos |-> 0]
         ELSE [random_id |-> id, pos |-> p]

\* lines 50-62
ById_Call ==
    /\ prog = "id" /\ pc = "call"
    /\ UNCHANGED <<arg_terms, facet_terms, retries, status, retry_after, n_gets>>
    /\ total' = 0
    /\ params' = WithKwargs([zone |-> zone, encoding |-> "json", n |-> "100",
                             key |-> API_KEY], kwargs)
    /\ random_id' = NoneId
    /\ random_sequence' \in Shuffles
    /\ pos' = 0
    /\ pc' = "id_loop"
    /\ UNCHANGED <<prog, query, add_word, add_number, zone, kwargs, tries,
                   zones, applied_facets, facets, data, result, last_request,
                   total_data, n_probes, n_counts, n_pages, n_applied,
                   n_facet_probes>>

\* lines 63-80: one iteration of the loop
ById_Iterate ==
    /\ prog = "id" /\ pc = "id_loop"
    /\ UNCHANGED <<arg_terms, facet_terms, retries, status, retry_after, n_gets>>
    /\ IdCond(total)
    /\ \E fresh1 \in Bases, fresh2 \in Bases :
         LET g == Grow(total, Shrink(total, random_id, fresh1), pos,
                       random_sequence, fresh2)
         IN  /\ random_id' = g.random_id
             /\ pos' = g.pos
    /\ params' = Put(params, "q", <<"id:">> \o random_id' \o <<"*">>)
    /\ last_request' = params'
    /\ data' \in Answers(params')
    /\ IF TotalMissing(data')
       THEN pc' = "raised" /\ UNCHANGED <<total, total_data>>
       ELSE /\ total' = TotalOf(data')
            /\ total_data' = data'
            /\ UNCHANGED pc
    /\ UNCHANGED <<prog, query, add_word, add_number, zone, kwargs, tries,
                   zones, applied_facets, facets, random_sequence, result,
                   n_probes, n_counts, n_pages, n_applied, n_facet_probes>>

\* line 83
ById_Return ==
    /\ prog = "id" /\ pc = "id_loop"
    /\ UNCHANGED <<arg_terms, facet_terms, retries, status, retry_after, n_gets>>
    /\ ~IdCond(total)
    /\ LET records == Zone0(data).records
       IN  IF Has(records, "work") /\ Len(records["work"]) > 0
           THEN result' \in Range(records["work"]) /\ pc' = "done"
           ELSE pc' = "raised" /\ UNCHANGED result
    /\ UNCHANGED <<prog, query, add_word, add_number, zone, kwargs, tries,
                   zones, params, total, applied_facets, facets, data,
                   random_id, random_sequence, pos, last_request, total_data,
                   n_probes, n_counts, n_pages, n_applied, n_facet_probes,
                   arg_terms, facet_terms,
                   retries, status, retry_after, n_gets>>

-----------------------------------------------------------------------------
(* random_newspaper_article.ipynb: get_random_article *)

ArticleFacets_Reversed ==
    <<"title", "category", "illustrated", "word", "decade", "year", "month">>

\* line 84
ArticleFacets ==
    <<"month", "year", "decade", "word", "illustrated", "category", "title">>

ArticleCalls ==
    { [query |-> NoString, kwargs |-> <<>>],
      [query |-> <<"cat">>, kwargs |-> <<>>],
      [query |-> NoString, kwargs |-> << <<"title", "35">> >>],
      [query |-> <<"cat">>,
       kwargs |-> << <<"state", "Victoria">>, <<"category", "Article">> >>] }

ArticleInit ==
    /\ prog = "news"
    /\ zone = <<"newspaper">>
    /\ add_word = FALSE
    /\ add_number = FALSE
    /\ \E c \in ArticleCalls : query = c.query /\ kwargs = c.kwargs

\* the answers to a search that lists one facet: no 'facets' object, an empty
\* facet list, or the facet with its terms
FacetAnswers(p) ==
    { Response(<< [name |-> p["zone"][1],
                   records |-> RecordsObject(t, "article", Missing)] >>) :
        t \in Totals }
    \cup
    { Response(<< [name |-> p["zone"][1],
                   records |-> RecordsObject(t, "article", Missing),
                   facets |-> [facet |-> f]] >>) :
        t \in Totals,
        f \in { <<>>, [name |-> p["facet"], term |-> FacetTerms(p["facet"])] } }

\* requests leaves a parameter whose value is None out of the request
Sent(p) == [k \in {x \in DOMAIN p : p[x] # None} |-> p[k]]

\* line 111
RetryCond(t, n) == t = 0 /\ n <= MaxTries

\* line 117
ArticleCond(t, fs) == t > WindowMax /\ Len(fs) > 0

\* the list, had it been built from the facet's name instead of the terms'
\* 'search' values
SearchValues_Names(d) ==
    LET term == Zone0(d).facets.facet.term
    IN  [i \in 1..Len(term) |-> Zone0(d).facets.facet.name]

\* line 64: [t['search'] for t in ...['facets']['facet']['term']]
SearchValues(d) ==
    LET term == Zone0(d).facets.facet.term
    IN  [i \in 1..Len(term) |-> term[i].search]

\* lines 82-108
Article_Call ==
    /\ prog = "news" /\ pc = "call"
    /\ UNCHANGED <<arg_terms, facet_terms, retries, status, retry_after, n_gets>>
    /\ applied_facets' = Keys(kwargs)
    /\ facets' = SelectSeq(ArticleFacets, LAMBDA f : f \notin Range(applied_facets'))
    /\ tries' = 0
    /\ \E random_word \in Range(STOPWORDS) :
         params' = WithKwargs(
                     [zone |-> zone, encoding |-> "json", n |-> "0",
                      key |-> API_KEY,
                      q |-> IF Truthy(query) THEN query
                            ELSE Quoted(<<random_word>>)],
                     kwargs)
    /\ last_request' = Sent(params')
    /\ n_counts' = n_counts + 1
    /\ data' \in Answers(Sent(params'))
    /\ IF TotalMissing(data')
       THEN pc' = "raised" /\ total' = 0 /\ UNCHANGED total_data
       ELSE pc' = "retry" /\ total' = TotalOf(data') /\ total_data' = data'
    /\ UNCHANGED <<prog, query, add_word, add_number, zone, kwargs, zones,
                   random_id, random_sequence, pos, result, n_probes,
                   n_pages, n_applied, n_facet_probes>>

\* lines 111-115: one iteration of the zero-results loop
Article_Retry ==
    /\ prog = "news" /\ pc = "retry"
    /\ UNCHANGED <<arg_terms, facet_terms, retries, status, retry_after, n_gets>>
    /\ RetryCond(total, tries)
    /\ IF ~Truthy(query)
       THEN \E random_word \in Range(STOPWORDS) :
              params' = Put(params, "q", Quoted(<<random_word>>))
       ELSE UNCHANGED params
    /\ tries' = tries + 1
    /\ UNCHANGED <<prog, pc, query, add_word, add_number, zone, kwargs, zones,
                   total, applied_facets, facets, data, random_id,
                   random_sequence, pos, result, last_request, total_data,
                   n_probes, n_counts, n_pages, n_applied, n_facet_probes>>

\* the iteration, had get_random_facet_value set 'facet' in the caller's own
\* params
Article_Narrow_NoCopy ==
    /\ prog = "news"
    /\ UNCHANGED <<arg_terms, facet_terms, retries, status, retry_after, n_gets>>
    /\ \/ pc = "retry" /\ ~RetryCond(total, tries)
       \/ pc = "narrow"
    /\ ArticleCond(total, facets)
    /\ LET facet == facets[Len(facets)]
           these_params == Put(params, "facet", facet)
       IN  /\ facets' = SubSeq(facets, 1, Len(facets) - 1)
           /\ n_applied' = n_applied + 1
           /\ n_facet_probes' = n_facet_probes + 1
           /\ \E fd \in FacetAnswers(Sent(these_params)) :
                IF FacetsMissing(fd) \/ (Zone0(fd).facets.facet # <<>>
                                         /\ Len(SearchValues(fd)) = 0)
                THEN /\ pc' = "raised"
                     /\ last_request' = Sent(these_params)
                     /\ UNCHANGED <<params, total, total_data, n_counts, data>>
                ELSE /\ \E value \in (IF Zone0(fd).facets.facet = <<>>
                                      THEN {None}
                                      ELSE Range(SearchValues(fd))) :
                          params' = Put(these_params, LKey(facet), value)
                     /\ last_request' = Sent(params')
                     /\ n_counts' = n_counts + 1
                     /\ data' \in Answers(Sent(params'))
                     /\ IF TotalMissing(data')
                        THEN pc' = "raised" /\ UNCHANGED <<total, total_data>>
                        ELSE /\ pc' = "narrow"
                             /\ total' = TotalOf(data')
                             /\ total_data' = data'
    /\ UNCHANGED <<prog, query, add_word, add_number, zone, kwargs, tries,
                   zones, applied_facets, random_id, random_sequence,
                   pos, result, n_probes, n_pages>>

\* lines 117-122: one iteration of the narrowing loop: pop a facet, list its
\* terms (get_random_facet_value), set it, count again (get_total_results)
Article_Narrow ==
    /\ prog = "news"
    /\ UNCHANGED <<arg_terms, facet_terms, retries, status, retry_after, n_gets>>
    /\ \/ pc = "retry" /\ ~RetryCond(total, tries)
       \/ pc = "narrow"
    /\ ArticleCond(total, facets)
    /\ LET facet == facets[Len(facets)]
           these_params == Put(params, "facet", facet)
       IN  /\ facets' = SubSeq(facets, 1, Len(facets) - 1)
           /\ n_applied' = n_applied + 1
           /\ n_facet_probes' = n_facet_probes + 1
           /\ \E fd \in FacetAnswers(Sent(these_params)) :
                IF FacetsMissing(fd) \/ (Zone0(fd).facets.facet # <<>>
                                         /\ Len(SearchValues(fd)) = 0)
                THEN /\ pc' = "raised"
                     /\ last_request' = Sent(these_params)
                     /\ UNCHANGED <<params, total, total_data, n_counts, data>>
                ELSE /\ \E value \in (IF Zone0(fd).facets.facet = <<>>
                                      THEN {None}
                                      ELSE Range(SearchValues(fd))) :
                          params' = Put(params, LKey(facet), value)
                     /\ last_request' = Sent(params')
                     /\ n_counts' = n_counts + 1
                     /\ data' \in Answers(Sent(params'))
                     /\ IF TotalMissing(data')
                        THEN pc' = "raised" /\ UNCHANGED <<total, total_data>>
                        ELSE /\ pc' = "narrow"
                             /\ total' = TotalOf(data')
                             /\ total_data' = data'
    /\ UNCHANGED <<prog, query, add_word, add_number, zone, kwargs, tries,
                   zones, applied_facets, random_id, random_sequence,
                   pos, result, n_probes, n_pages>>

\* lines 126-131: fetch the page and pick an article, or fall off the end
Article_Finish ==
    /\ prog = "news"
    /\ UNCHANGED <<arg_terms, facet_terms, retries, status, retry_after, n_gets>>
    /\ \/ pc = "retry" /\ ~RetryCond(total, tries)
       \/ pc = "narrow"
    /\ ~ArticleCond(total, facets)
    /\ IF total > 0
       THEN /\ params' = Put(params, "n", "100")
            /\ last_request' = Sent(params')
            /\ n_pages' = n_pages + 1
            /\ data' \in Answers(Sent(params'))
            /\ LET records == Zone0(data').records
               IN  IF Has(records, "article") /\ Len(records["article"]) > 0
                   THEN /\ result' \in Range(records["article"])
                        /\ pc' = "done"
                   ELSE /\ pc' = "raised"
                        /\ UNCHANGED result
       ELSE /\ result' = None
            /\ pc' = "done"
            /\ UNCHANGED <<params, last_request, n_pages, data>>
    /\ UNCHANGED <<prog, query, add_word, add_number, zone, kwargs, tries,
                   zones, total, applied_facets, facets, random_id,
                   random_sequence, pos, total_data, n_probes, n_counts,
                   n_applied, n_facet_probes>>

-----------------------------------------------------------------------------

Init ==
    /\ pc = "call"
    /\ \/ FacetsInit
       \/ IdInit
       \/ ArticleInit
    /\ tries = 0
    /\ zones = <<>>
    /\ params = [n |-> "0"]
    /\ total = 0
    /\ applied_facets = <<>>
    /\ facets = <<>>
    /\ data = NoData
    /\ random_id = NoneId
    /\ random_sequence = <<>>
    /\ pos = 0
    /\ result = None
    /\ last_request = [n |-> "0"]
    /\ total_data = NoData
    /\ n_probes = 0
    /\ n_counts = 0
    /\ n_pages = 0
    /\ n_applied = 0
    /\ n_facet_probes = 0
    /\ arg_terms = <<>>
    /\ facet_terms = <<>>
    /\ retries = RetryTotal
    /\ status = 0
    /\ retry_after = FALSE
    /\ n_gets = 0

Next ==
    \/ GetRandomWork_Call
    \/ GetRandomWork_Probe
    \/ GetRandomWork_Exit
    \/ FromZone_Start
    \/ FromZone_Narrow
    \/ FromZone_Finish
    \/ ById_Call
    \/ ById_Iterate
    \/ ById_Return
    \/ Article_Call
    \/ Article_Retry
    \/ Article_Narrow
    \/ Article_Finish

Spec == Init /\ [][Next]_vars

\* a call that is running takes its next step: the code is sequential and
\* every request is answered (or raises)
FairSpec == Spec /\ WF_vars(Next)

-----------------------------------------------------------------------------
(* The helper functions of random_work_by_facets.ipynb called on their own: *)
(* get_facet_terms, get_facets, set_query                                   *)

MaxDepth == 3

\* how many terms a list of terms may hold
KidCounts == {0, 1, 2}

\* the shapes of the lists of terms nested at most d deep ('search' not yet
\* filled in)
RECURSIVE TermShapes(_)
TermShapes(d) ==
    LET nodes == {[search |-> <<>>]}
                 \cup (IF d = 1 THEN {}
                       ELSE {[search |-> <<>>, term |-> t] : t \in TermShapes(d - 1)})
    IN  UNION {[1..n -> nodes] : n \in KidCounts}

\* the 'search' value of a term is its position in the tree (the path of
\* list indexes that leads to it), so that no two terms have the same value
RECURSIVE Labelled(_, _)
Labelled(ts, path) ==
    [i \in 1..Len(ts) |->
        IF Has(ts[i], "term")
        THEN [search |-> Append(path, i),
              term |-> Labelled(ts[i].term, Append(path, i))]
        ELSE [search |-> Append(path, i)]]

TermLists(d) == {Labelled(ts, <<>>) : ts \in TermShapes(d)}

FacetNames == {"format", "year", "decade", "advtitle"}

\* the responses get_facets is called with: every list of up to 3 facets,
\* and a response without a 'facets' object
FacetResponses ==
    { Response(<< ZoneObject("book",
                             RecordsObject(<<"1", "0", "1">>, "work", Missing),
                             names) >>) :
        names \in {Missing} \cup UNION {[1..n -> FacetNames] : n \in 0..3} }

\* what random.randrange(1, 100) may give
RandomRange == 1..99

HelperInit ==
    /\ pc = "call"
    /\ \/ /\ prog = "get_facet_terms"
          /\ arg_terms \in TermLists(MaxDepth)
          /\ data = NoData
          /\ params = [n |-> "0"]
          /\ query = NoString /\ add_word = FALSE /\ add_number = FALSE
       \/ /\ prog = "get_facets"
          /\ arg_terms = <<>>
          /\ data \in FacetResponses
          /\ params = [n |-> "0"]
          /\ query = NoString /\ add_word = FALSE /\ add_number = FALSE
       \/ /\ prog = "set_query"
          /\ arg_terms = <<>>
          /\ data = NoData
          /\ params \in { [n |-> "0"], [n |-> "0", q |-> <<"dog">>] }
          /\ query \in {NoString, <<"cat">>}
          /\ add_word \in BOOLEAN
          /\ add_number \in BOOLEAN
    /\ zone = NoString
    /\ kwargs = <<>>
    /\ tries = 0
    /\ zones = <<>>
    /\ total = 0
    /\ applied_facets = <<>>
    /\ facets = <<>>
    /\ random_id = NoneId
    /\ random_sequence = <<>>
    /\ pos = 0
    /\ result = None
    /\ last_request = [n |-> "0"]
    /\ total_data = NoData
    /\ n_probes = 0
    /\ n_counts = 0
    /\ n_pages = 0
    /\ n_applied = 0
    /\ n_facet_probes = 0
    /\ facet_terms = <<>>
    /\ retries = RetryTotal
    /\ status = 0
    /\ retry_after = FALSE
    /\ n_gets = 0

\* lines 61-70
GetFacetTerms ==
    /\ prog = "get_facet_terms" /\ pc = "call"
    /\ facet_terms' = get_facet_terms(arg_terms)
    /\ pc' = "done"
    /\ UNCHANGED <<prog, query, add_word, add_number, zone, kwargs, tries,
                   zones, params, total, applied_facets, facets, data,
                   random_id, random_sequence, pos, result, last_request,
                   total_data, n_probes, n_counts, n_pages, n_applied,
                   n_facet_probes, arg_terms, retries, status,
                   retry_after, n_gets>>

\* lines 72-81
GetFacets ==
    /\ prog = "get_facets" /\ pc = "call"
    /\ IF FacetsMissing(data)
       THEN pc' = "raised" /\ UNCHANGED facets
       ELSE pc' = "done" /\ facets' = get_facets(data)
    /\ UNCHANGED <<prog, query, add_word, add_number, zone, kwargs, tries,
                   zones, params, total, applied_facets, data, random_id,
                   random_sequence, pos, result, last_request, total_data,
                   n_probes, n_counts, n_pages, n_applied, n_facet_probes,
                            arg_terms, facet_terms,
                   retries, status, retry_after, n_gets>>

\* lines 84-99
SetQuery ==
    /\ prog = "set_query" /\ pc = "call"
    /\ \E random_word \in Range(STOPWORDS), random_number \in RandomRange :
         params' = set_query(params, query, add_word, add_number,
                             random_word, random_number)
    /\ pc' = "done"
    /\ UNCHANGED <<prog, query, add_word, add_number, zone, kwargs, tries,
                   zones, total, applied_facets, facets, data, random_id,
                   random_sequence, pos, result, last_request, total_data,
                   n_probes, n_counts, n_pages, n_applied, n_facet_probes,
                            arg_terms, facet_terms,
                   retries, status, retry_after, n_gets>>

HelperNext ==
    \/ GetFacetTerms
    \/ GetFacets
    \/ SetQuery

HelperSpec == HelperInit /\ [][HelperNext]_vars

-----------------------------------------------------------------------------
(* One s.get call seen from the wire: the adapter sends the request, and   *)
(* sends it again as long as Retry says so                                 *)

GetInit ==
    /\ prog = "get"
    /\ pc = "call"
    /\ retries = RetryTotal
    /\ status = 0
    /\ retry_after = FALSE
    /\ n_gets = 0
    /\ query = NoString /\ add_word = FALSE /\ add_number = FALSE
    /\ zone = NoString
    /\ kwargs = <<>>
    /\ tries = 0
    /\ zones = <<>>
    /\ params = [n |-> "0"]
    /\ total = 0
    /\ applied_facets = <<>>
    /\ facets = <<>>
    /\ data = NoData
    /\ random_id = NoneId
    /\ random_sequence = <<>>
    /\ pos = 0
    /\ result = None
    /\ last_request = [n |-> "0"]
    /\ total_data = NoData
    /\ n_probes = 0
    /\ n_counts = 0
    /\ n_pages = 0
    /\ n_applied = 0
    /\ n_facet_probes = 0
    /\ arg_terms = <<>>
    /\ facet_terms = <<>>

\* one request on the wire and what the adapter does with the response: hand
\* it to the caller (pc "done"), send again (pc "retry"), or raise RetryError
Get_Send ==
    /\ prog = "get" /\ pc \in {"call", "retry"}
    /\ n_gets' = n_gets + 1
    /\ status' \in Statuses
    /\ retry_after' \in BOOLEAN
    /\ IF is_retry(retries, status', retry_after')
       THEN IF is_exhausted(retries - 1)
            THEN pc' = "raised" /\ UNCHANGED retries
            ELSE pc' = "retry" /\ retries' = retries - 1
       ELSE pc' = "done" /\ UNCHANGED retries
    /\ UNCHANGED <<prog, query, add_word, add_number, zone, kwargs, tries,
                   zones, params, total, applied_facets, facets, data,
                   random_id, random_sequence, pos, result, last_request,
                   total_data, n_probes, n_counts, n_pages, n_applied,
                   n_facet_probes, arg_terms, facet_terms>>

GetNext == Get_Send

GetSpec == GetInit /\ [][GetNext]_vars

-----------------------------------------------------------------------------
(* The second copy of get_random_work_from_zone in                          *)
(* random_work_by_facets.ipynb (lines 515-553), called on its own           *)

\* how many iterations of its loop are followed
MaxIterations == 3

\* an entry of its applied_facets: a facet name (a caller's key, line 529) or
\* a whole facet dict (line 540)
AppliedName(name) == [kind |-> "name", facet |-> name, terms |-> <<>>]

AppliedDict(f) == [kind |-> "dict", facet |-> f.facet, terms |-> f.terms]

\* lines 534, 549: [f for f in facets if f.get('facet') not in applied_facets]
\* a name is equal to no dict, so only the entries that are names count
NotApplied2(fs, applied) ==
    SelectSeq(fs, LAMBDA f :
        \A i \in 1..Len(applied) :
            ~(applied[i].kind = "name" /\ applied[i].facet = f.facet))

\* lines 518-528
ZoneParams2(z, q, kw) ==
    WithKwargs([zone |-> z, encoding |-> "json", n |-> "100", key |-> API_KEY,
                facet |-> "all", include |-> "links", q |-> q], kw)

\* line 536
NarrowCond2(t, fs) == t = 0 \/ t > WindowMax \/ Len(fs) = 0

Zone2Calls ==
    { [zone |-> <<"book">>, query |-> <<"cat">>, kwargs |-> <<>>],
      [zone |-> <<"book">>, query |-> <<"cat">>,
       kwargs |-> << <<"format", "Book">> >>] }

Zone2Init ==
    /\ prog = "zone2"
    /\ pc = "call"
    /\ \E c \in Zone2Calls : zone = c.zone /\ query = c.query /\ kwargs = c.kwargs
    /\ add_word = FALSE /\ add_number = FALSE
    /\ tries = 0
    /\ zones = <<>>
    /\ params = [n |-> "0"]
    /\ total = 0
    /\ applied_facets = <<>>
    /\ facets = <<>>
    /\ data = NoData
    /\ random_id = NoneId
    /\ random_sequence = <<>>
    /\ pos = 0
    /\ result = None
    /\ last_request = [n |-> "0"]
    /\ total_data = NoData
    /\ n_probes = 0
    /\ n_counts = 0
    /\ n_pages = 0
    /\ n_applied = 0
    /\ n_facet_probes = 0
    /\ arg_terms = <<>>
    /\ facet_terms = <<>>
    /\ retries = RetryTotal
    /\ status = 0
    /\ retry_after = FALSE
    /\ n_gets = 0

\* lines 516-534: the locals, the first search, its total and its facets
Zone2_Start ==
    /\ prog = "zone2" /\ pc = "call"
    /\ applied_facets' = [i \in 1..Len(kwargs) |-> AppliedName(kwargs[i][1])]
    /\ params' = ZoneParams2(zone, query, kwargs)
    /\ last_request' = params'
    /\ n_pages' = n_pages + 1
    /\ data' \in Answers(params')
    /\ IF TotalMissing(data')
       THEN /\ pc' = "raised"
            /\ UNCHANGED <<total, total_data, facets>>
       ELSE /\ total' = TotalOf(data')
            /\ total_data' = data'
            /\ IF FacetsMissing(data')
               THEN pc' = "raised" /\ UNCHANGED facets
               ELSE /\ facets' = NotApplied2(get_facets(data'), applied_facets')
                    /\ pc' = "loop2"
    /\ UNCHANGED <<prog, query, add_word, add_number, zone, kwargs, tries,
                   zones, random_id, random_sequence, pos, result, n_probes,
                   n_counts, n_applied, n_facet_probes, arg_terms, facet_terms,
                   retries, status, retry_after, n_gets>>

\* lines 536-550: one iteration of the loop; random.choice of an empty
\* catalog raises IndexError
Zone2_Narrow ==
    /\ prog = "zone2" /\ pc = "loop2"
    /\ NarrowCond2(total, facets)
    /\ n_applied < MaxIterations
    /\ IF Len(facets) = 0
       THEN /\ pc' = "raised"
            /\ UNCHANGED <<applied_facets, params, last_request, n_pages,
                           n_applied, data, facets, total, total_data>>
       ELSE /\ \E new_facet \in Range(facets) :
                 /\ applied_facets' = Append(applied_facets, AppliedDict(new_facet))
                 /\ \E value \in Range(new_facet.terms) :
                      params' = Put(params, LKey(new_facet.facet), value)
            /\ last_request' = params'
            /\ n_pages' = n_pages + 1
            /\ n_applied' = n_applied + 1
            /\ data' \in Answers(params')
            /\ IF FacetsMissing(data')
               THEN /\ pc' = "raised"
                    /\ UNCHANGED <<facets, total, total_data>>
               ELSE /\ facets' = NotApplied2(get_facets(data'), applied_facets')
                    /\ IF TotalMissing(data')
                       THEN pc' = "raised" /\ UNCHANGED <<total, total_data>>
                       ELSE /\ total' = TotalOf(data')
                            /\ total_data' = data'
                            /\ pc' = "loop2"
    /\ UNCHANGED <<prog, query, add_word, add_number, zone, kwargs, tries,
                   zones, random_id, random_sequence, pos, result, n_probes,
                   n_counts, n_facet_probes, arg_terms, facet_terms,
                   retries, status, retry_after, n_gets>>

\* line 553: pick a work of the last response
Zone2_Return ==
    /\ prog = "zone2" /\ pc = "loop2"
    /\ ~NarrowCond2(total, facets)
    /\ LET records == Zone0(data).records
       IN  IF Has(records, "work") /\ Len(records["work"]) > 0
           THEN result' \in Range(records["work"]) /\ pc' = "done"
           ELSE pc' = "raised" /\ UNCHANGED result
    /\ UNCHANGED <<prog, query, add_word, add_number, zone, kwargs, tries,
                   zones, params, total, applied_facets, facets, data,
                   random_id, random_sequence, pos, last_request, total_data,
                   n_probes, n_counts, n_pages, n_applied, n_facet_probes,
                   arg_terms, facet_terms, retries, status, retry_after,
                   n_gets>>

Zone2Next ==
    \/ Zone2_Start
    \/ Zone2_Narrow
    \/ Zone2_Return

Zone2Spec == Zone2Init /\ [][Zone2Next]_vars

-----------------------------------------------------------------------------
(* Properties *)

\* the record list of a response's first zone (empty when it has none)
RecordList(d) ==
    IF d.response.zone = <<>> THEN <<>>
    ELSE LET records == Zone0(d).records
         IN  IF Has(records, "work") THEN records["work"]
             ELSE IF Has(records, "article") THEN records["article"]
             ELSE <<>>

Ended == pc \in {"done", "raised"}

\* C1: final step of the facet strategy and of the newspaper sampler. A call
\* that has ended sent at most one page request; it sent one exactly when
\* narrowing ended with total > 0, as its last request, with window 100 and
\* without the list-all-facets flag, and a record that is returned is in the
\* record list of the answer to it; with total = 0 no page request is sent
\* and None is returned.
C1_FinalStep ==
    prog \in {"facets", "news"} =>
        /\ n_pages \in {0, 1}
        /\ n_pages = 1 =>
              /\ Ended
              /\ total > 0
              /\ last_request["n"] = "100"
              /\ ~Has(last_request, "facet")
              /\ last_request = Sent(params)
              /\ data \in Answers(last_request)
        /\ pc = "done" /\ total > 0 =>
              /\ n_pages = 1
              /\ result \in Range(RecordList(data))
        /\ pc = "done" /\ total = 0 =>
              /\ n_pages = 0
              /\ result = None
        /\ pc = "raised" /\ n_pages = 1 => RecordList(data) = <<>>

C1_Witness ==
    /\ prog = "facets"
    /\ pc = "done"
    /\ n_applied = 1
    /\ total = 100
    /\ result = "r2"

\* C2: the narrowing loop of the facet strategy runs another iteration
\* exactly when total > 100 and the catalog is not empty; when it is left,
\* total <= 100 or the catalog is empty; and left with an empty catalog and
\* total > 100 it still sends the page request and returns a record of the
\* answer (the only failure left is an answer without records).
C2_LoopExit ==
    [][ (prog = "facets" /\ pc = "narrow") =>
          /\ (total > 100 /\ Len(facets) > 0) <=> (n_applied' = n_applied + 1)
          /\ (n_applied' = n_applied) =>
                /\ total <= 100 \/ Len(facets) = 0
                /\ pc' \in {"done", "raised"}
          /\ (n_applied' = n_applied /\ total > 100) =>
                /\ n_pages' = n_pages + 1
                /\ last_request'["n"] = "100"
                /\ \/ pc' = "done" /\ result' \in Range(RecordList(data'))
                   \/ pc' = "raised" /\ RecordList(data') = <<>>
      ]_vars

C2_Witness ==
    /\ prog = "facets"
    /\ pc = "done"
    /\ total = 101
    /\ facets = <<>>
    /\ n_applied = 2
    /\ result \in RecordPool

IsPrefix(s, t) == Len(s) <= Len(t) /\ SubSeq(t, 1, Len(s)) = s

NoDuplicates(s) == \A i, j \in 1..Len(s) : s[i] = s[j] => i = j

CatalogNames(fs) == {fs[i].facet : i \in 1..Len(fs)}

\* C3: in a session of the facet strategy the list of applied facet names
\* only grows, holds no name twice (the caller's names included), and at the
\* head of the loop no applied name is in the catalog.
C3_AppliedDisjoint ==
    /\ [](prog = "facets" =>
            /\ NoDuplicates(applied_facets)
            /\ pc = "narrow" =>
                 /\ Range(applied_facets) \cap CatalogNames(facets) = {}
                 /\ \A i \in 1..Len(kwargs) : kwargs[i][1] \in Range(applied_facets))
    /\ [][prog = "facets" => IsPrefix(applied_facets, applied_facets')]_vars

\* a second narrowing iteration is due, the caller supplied a facet, and the
\* last answer listed a facet that is already applied
C3_Witness ==
    /\ prog = "facets"
    /\ pc = "narrow"
    /\ n_applied = 1
    /\ total > 100
    /\ Len(facets) = 1
    /\ \E f \in Range(Zone0(data).facets.facet) : f.name \in Range(applied_facets)

\* everything a request asks for but the window and the facet listing
Constraints(p) == [k \in DOMAIN p \ {"n", "facet"} |-> p[k]]

\* the head of a narrowing loop, a total having been read
LoopHead ==
    \/ prog = "facets" /\ pc = "narrow"
    \/ prog = "id" /\ pc = "id_loop" /\ random_id # NoneId
    \/ prog = "news" /\ pc \in {"retry", "narrow"}

\* C4 as claimed: at the head of a narrowing loop (facet, newspaper, work-id)
\* with 0 < total <= 100 the next step narrows no further, and a record it
\* returns is in the record list of the response that reported the total.
C4_Original ==
    [][ (LoopHead /\ 0 < total /\ total <= 100) =>
          /\ n_applied' = n_applied
          /\ applied_facets' = applied_facets
          /\ random_id' = random_id
          /\ Constraints(params') = Constraints(params)
          /\ pc' = "done" => result' \in Range(RecordList(total_data))
      ]_vars

\* C4 as amended: ... and a record it returns is in the record list of the
\* last response: for the work-id loop the response that reported the total
\* (it asks for a window of 100), for the facet and newspaper loops the
\* answer to the page request sent next with the same constraints (their
\* count requests ask for a window of 0 and bring no records).
C4_InWindow ==
    [][ (LoopHead /\ 0 < total /\ total <= 100) =>
          /\ n_applied' = n_applied
          /\ applied_facets' = applied_facets
          /\ random_id' = random_id
          /\ Constraints(params') = Constraints(params)
          /\ pc' \in {"done", "raised"}
          /\ prog = "id" => data' = total_data /\ last_request' = last_request
          /\ prog # "id" =>
                /\ n_pages' = n_pages + 1
                /\ last_request' = Sent(params')
                /\ last_request'["n"] = "100"
                /\ RecordList(total_data) = <<>>
          /\ pc' = "done" => result' \in Range(RecordList(data'))
      ]_vars

\* the first count of the newspaper sampler reported 100: no facet is
\* applied and an article of the page is returned
C4_Witness ==
    /\ prog = "news"
    /\ pc = "done"
    /\ total = 100
    /\ n_applied = 0
    /\ n_counts = 1
    /\ result = "r1"

\* C5: the work-id sampler returns only when the last response reports
\* 0 < total <= 100; that response answers the last prefix queried, and the
\* record returned is in its record list.
C5_IdReturn ==
    (prog = "id" /\ pc = "done") =>
        /\ 0 < total /\ total <= 100
        /\ total = TotalOf(data)
        /\ total_data = data
        /\ data \in Answers(last_request)
        /\ last_request = params
        /\ params["q"] = <<"id:">> \o random_id \o <<"*">>
        /\ result \in Range(RecordList(data))

C5_Witness ==
    /\ prog = "id"
    /\ pc = "done"
    /\ Len(random_id) = 6
    /\ total = 100
    /\ result = "r2"

Queried == prog = "id" /\ Has(last_request, "q")

\* C6 as claimed: no prefix shorter than 4 digits is ever queried.
C6_Original == Queried => Len(random_id) >= 4

\* C6 as amended: no prefix shorter than 3 digits is ever queried: a prefix
\* is shortened only while it has 4 or more digits, and a 3-digit prefix
\* that reports no results is replaced by a fresh 5-digit base.
C6_PrefixFloor ==
    /\ [](Queried => Len(random_id) >= 3 /\ params["q"] = <<"id:">> \o random_id \o <<"*">>)
    /\ [][ (Queried /\ pc = "id_loop") =>
             /\ Len(random_id') < Len(random_id) /\ Len(random_id) < 5
                  => Len(random_id) >= 4 /\ total = 0
             /\ Len(random_id) < 4 /\ total = 0
                  => random_id' \in {str(b) : b \in Bases}
         ]_vars

\* a 3-digit prefix was queried
C6_Witness ==
    /\ Queried
    /\ Len(random_id) = 3
    /\ pc = "id_loop"
    /\ total = 0

\* C7: get_random_work sends at most 10 probe requests in one call.
C7_AtMostTenProbes == prog = "facets" => n_probes <= 10

\* the zones of a probe response that report a total above 0
NonEmptyZones(d) ==
    {z.name : z \in {y \in Range(d.response.zone) : int(y.records["total"]) > 0}}

\* the last request was a probe and every zone of its answer reports 0
ProbedEmpty ==
    /\ prog = "facets"
    /\ n_probes > 0
    /\ n_counts = 0
    /\ NonEmptyZones(data) = {}

\* C8: when the last probe found every zone empty, get_random_work is still
\* probing or has returned None: it never raised, and sent no count or page
\* request; once the tries are used up its next step returns None.
C8_SoftExhaustion ==
    /\ [](ProbedEmpty =>
            /\ pc \in {"probe", "done"}
            /\ n_pages = 0
            /\ pc = "done" => result = None /\ ~ProbeCond(zones, tries))
    /\ [][ (ProbedEmpty /\ pc = "probe") =>
             /\ n_counts' = 0 /\ n_pages' = 0
             /\ \/ n_probes' = n_probes + 1 /\ pc' = "probe"
                \/ n_probes' = n_probes /\ pc' = "done" /\ result' = None
         ]_vars

\* both requested zones stayed empty on every probe, and None was returned
C8_Witness ==
    /\ ProbedEmpty
    /\ pc = "done"
    /\ zone = <<"book", "article">>
    /\ n_probes >= 10
    /\ result = None

\* C9: get_zones gives exactly the zones of the last probe response whose
\* total is above 0; the zone handed to get_random_work_from_zone is one of
\* them, and the query handed over is the query of the last probe request.
C9_Handover ==
    /\ (prog = "facets" /\ pc = "probe" /\ n_probes > 0) =>
          /\ Range(zones) = NonEmptyZones(data)
          /\ data \in ProbeAnswers(last_request)
    /\ (prog = "facets" /\ pc = "from_zone") =>
          /\ Len(zone) = 1
          /\ zone[1] \in NonEmptyZones(data)
          /\ data \in ProbeAnswers(last_request)
          /\ query = last_request["q"]

\* the third probe, sent with a number token, found results in one of the
\* six zones
C9_Witness ==
    /\ prog = "facets"
    /\ pc = "from_zone"
    /\ n_probes = 3
    /\ Len(data.response.zone) = 6
    /\ NonEmptyZones(data) = {"article"}
    /\ query = <<"cat", " ", "\"", "4", "2", "\"">>

\* C10: in get_random_article, while the first count is 0 and no query was
\* supplied, every iteration of the zero-results loop sends the search again
\* with the newly chosen query.
C10_RetrySearches ==
    [][ (prog = "news" /\ pc = "retry" /\ total = 0 /\ tries < 10
         /\ ~Truthy(query)) =>
          /\ n_counts' = n_counts + 1
          /\ last_request' = Sent(params')
      ]_vars

\* the positions a term can have in a tree: paths of list indexes
TermPaths == UNION {[1..n -> 1..2] : n \in 1..MaxDepth}

\* there is a term at position p of the list ts
RECURSIVE HasTerm(_, _)
HasTerm(ts, p) ==
    /\ p[1] <= Len(ts)
    /\ \/ Len(p) = 1
       \/ /\ Has(ts[p[1]], "term")
          /\ HasTerm(ts[p[1]].term, Tail(p))

RECURSIVE SearchAt(_, _)
SearchAt(ts, p) ==
    IF Len(p) = 1 THEN ts[p[1]].search ELSE SearchAt(ts[p[1]].term, Tail(p))

\* p comes before q in pre-order: p is an ancestor of q, or p branches off
\* to the left of q
PreOrderBefore(p, q) ==
    /\ p # q
    /\ \/ IsPrefix(p, q)
       \/ \E i \in 1..Len(p) :
            /\ i <= Len(q)
            /\ SubSeq(p, 1, i - 1) = SubSeq(q, 1, i - 1)
            /\ p[i] < q[i]

TermsOf(ts) == {p \in TermPaths : HasTerm(ts, p)}

\* C11: get_facet_terms returns the 'search' values of all terms of the tree
\* in pre-order: the list is as long as the tree has terms, and the value of
\* each term is at the place given by the number of terms that come before
\* it in pre-order (its ancestors and everything to its left).
C11_PreOrder ==
    (prog = "get_facet_terms" /\ pc = "done") =>
        LET N == TermsOf(arg_terms)
        IN  /\ Len(facet_terms) = Cardinality(N)
            /\ \A p \in N :
                 facet_terms[Cardinality({q \in N : PreOrderBefore(q, p)}) + 1]
                   = SearchAt(arg_terms, p)

\* a tree of depth 3 whose first term has nested terms and a sibling after it
C11_Witness ==
    /\ prog = "get_facet_terms"
    /\ pc = "done"
    /\ facet_terms = << <<1>>, <<1, 1>>, <<1, 1, 1>>, <<1, 2>>, <<2>> >>

\* the facet names of the service that start with 'adv'
AdvNames == {"advtitle"}

\* the names of the facets of a response, in order
ResponseFacetNames(d) ==
    [i \in 1..Len(Zone0(d).facets.facet) |-> Zone0(d).facets.facet[i].name]

\* C12: the catalog get_facets returns has, in the order of the response, one
\* entry for each facet whose name neither starts with 'adv' nor is 'decade',
\* and no other entry.
C12_Exclusion ==
    (prog = "get_facets" /\ pc = "done") =>
        [i \in 1..Len(facets) |-> facets[i].facet]
          = SelectSeq(ResponseFacetNames(data),
                      LAMBDA n : n \notin AdvNames /\ n # "decade")

\* a response that lists an 'adv' facet, a facet that is kept and 'decade'
C12_Witness ==
    /\ prog = "get_facets"
    /\ pc = "done"
    /\ ResponseFacetNames(data) = <<"advtitle", "format", "decade">>
    /\ Len(facets) = 1
    /\ facets[1].facet = "format"

\* the last response decoded answers a count request of the narrowing loop,
\* reports a total and has no 'facets' object
NoFacetSection ==
    /\ prog = "facets"
    /\ n_counts > 0
    /\ n_pages = 0
    /\ ~TotalMissing(data)
    /\ FacetsMissing(data)

\* C13: when the response has no facet section, get_facets gives an empty
\* catalog and nothing is raised: the narrowing loop goes on with an empty
\* catalog.
C13_NoFacetSection ==
    NoFacetSection => pc # "raised" /\ facets = <<>>

\* a double-quoted stopword
WordTokens == { <<"\"", w, "\"">> : w \in Range(STOPWORDS) }

\* a double-quoted, two-digit, zero-padded integer in [1, 100)
NumberTokens ==
    { <<"\"", a, b, "\"">> : a \in Range(DigitChar), b \in Range(DigitChar) }
    \ { <<"\"", "0", "0", "\"">> }

SetQueryDone == prog = "set_query" /\ pc = "done"

\* C14: the query set_query leaves in params: with a base query and add_word
\* set, the base query, one space and one double-quoted stopword; with no
\* base query, one double-quoted stopword and nothing else, whatever the
\* flags are; with a base query and neither flag, the base query unchanged.
C14_OutputForms ==
    SetQueryDone =>
        /\ (Truthy(query) /\ add_word) =>
              \E t \in WordTokens : params["q"] = query \o <<" ">> \o t
        /\ ~Truthy(query) => params["q"] \in WordTokens
        /\ (Truthy(query) /\ ~add_word /\ ~add_number) => params["q"] = query

\* both flags set with a base query: the stopword form
C14_Witness ==
    /\ SetQueryDone
    /\ add_word /\ add_number
    /\ params["q"] = <<"cat", " ", "\"", "of", "\"">>

\* the query ends with a number token appended to the base query
NumberAppended ==
    \E t \in NumberTokens : params["q"] = query \o <<" ">> \o t

\* C15: set_query appends at most one randomized token; with both flags set
\* that token is a stopword; and a number token (double-quoted, two digits,
\* zero-padded, in [1, 100)) is appended exactly when a base query is given,
\* add_number is set and add_word is not.
C15_Precedence ==
    SetQueryDone =>
        /\ \/ Truthy(query) /\ params["q"] = query
           \/ \E t \in WordTokens \cup NumberTokens :
                params["q"] = (IF Truthy(query) THEN query \o <<" ">> ELSE <<>>) \o t
        /\ (add_word /\ add_number) =>
              \E t \in WordTokens :
                params["q"] = (IF Truthy(query) THEN query \o <<" ">> ELSE <<>>) \o t
        /\ NumberAppended <=> (Truthy(query) /\ add_number /\ ~add_word)

\* a one-digit number is padded to two digits
C15_Witness ==
    /\ SetQueryDone
    /\ add_number /\ ~add_word
    /\ params["q"] = <<"cat", " ", "\"", "0", "7", "\"">>

\* the priority list read from its end
PriorityFromEnd ==
    <<"title", "category", "illustrated", "word", "decade", "year", "month">>

CallerNames == {kwargs[i][1] : i \in 1..Len(kwargs)}

\* the names get_random_article is to apply, in order: the priority list from
\* its end, without the names the caller supplied
ApplyOrder == SelectSeq(PriorityFromEnd, LAMBDA f : f \notin CallerNames)

\* C16: get_random_article applies facets in the order of the priority list
\* read from its end (title first, month last), skipping the caller's names:
\* after k applications the names left are the first Len - k of the list the
\* call started with, the k-th application sets the k-th name of that order
\* (a name not set before), and there are never more than 7 applications, so
\* the loop ends after at most 7 iterations.
C16_FacetOrder ==
    /\ [](prog = "news" /\ pc # "call" =>
            /\ n_applied <= Len(ApplyOrder)
            /\ Len(ApplyOrder) <= 7
            /\ Len(facets) = Len(ApplyOrder) - n_applied
            /\ \A i \in 1..Len(facets) :
                 facets[i] = ApplyOrder[Len(ApplyOrder) + 1 - i])
    /\ [][ (prog = "news" /\ pc # "call" /\ n_applied' # n_applied) =>
             /\ n_applied' = n_applied + 1
             /\ total > 100
             /\ ~Has(params, LKey(ApplyOrder[n_applied']))
             /\ n_counts' # n_counts =>
                  /\ DOMAIN params' = DOMAIN params \cup {LKey(ApplyOrder[n_applied'])}
                  /\ \A k \in DOMAIN params : params'[k] = params[k]
         ]_vars

\* the caller supplied title; the six other facets were applied, month last
C16_Witness ==
    /\ prog = "news"
    /\ pc = "done"
    /\ CallerNames = {"title"}
    /\ n_applied = 6
    /\ facets = <<>>
    /\ Has(params, "l-month")
    /\ result \in RecordPool

\* a session of get_random_work_from_zone (facet strategy) has begun
InSession == prog = "facets" /\ n_counts > 0

\* C17: a session of get_random_work_from_zone that has applied k facets has
\* sent exactly k + 1 count requests; when it ends with total > 0 it has then
\* sent exactly one page request, its last request (k + 2 requests in all);
\* with total = 0 it sends none.
C17_RequestCount ==
    /\ [](InSession =>
            /\ n_counts = n_applied + 1
            /\ n_pages \in {0, 1}
            /\ n_pages = 1 => Ended /\ total > 0 /\ last_request["n"] = "100"
            /\ pc = "done" =>
                 /\ n_pages = (IF total > 0 THEN 1 ELSE 0)
                 /\ n_counts + n_pages = n_applied + (IF total > 0 THEN 2 ELSE 1))
    /\ [][ (InSession /\ n_pages' # n_pages) => n_counts' = n_counts ]_vars

\* a first total above 100, one facet applied, then a total of 100: two count
\* requests and the page request
C17_Witness ==
    /\ InSession
    /\ pc = "done"
    /\ n_applied = 1
    /\ Len(applied_facets) = 1
    /\ total = 100
    /\ n_counts = 2
    /\ n_pages = 1
    /\ result = "r1"

\* the requests sent so far in the call
Requests == n_probes + n_counts + n_facet_probes + n_pages

\* C18: in a call of the facet strategy (prober and narrowing) or of the
\* newspaper sampler, every request sent before the page request asks for a
\* window of 0 (probes, count requests, facet listings, all sent from params);
\* at most one request asks for a window of 100, it is the last request of
\* the call, and a call that returns a record has sent exactly one.
C18_WindowDiscipline ==
    /\ [](prog \in {"facets", "news"} /\ pc # "call" =>
            /\ n_pages \in {0, 1}
            /\ n_pages = 0 => params["n"] = "0" /\ last_request["n"] = "0"
            /\ n_pages = 1 => Ended /\ last_request["n"] = "100"
            /\ (pc = "done" /\ result # None) => n_pages = 1)
    /\ [][ (prog \in {"facets", "news"} /\ Requests' # Requests) =>
             /\ n_pages = 0
             /\ n_pages' = 1 =>
                  /\ Requests' = Requests + 1
                  /\ last_request'["n"] = "100"
                  /\ Constraints(last_request') = Constraints(Sent(params))
             /\ n_pages' = 0 => last_request'["n"] = "0"
         ]_vars

\* the newspaper sampler listed two facets, counted three times and returned
\* an article of the page
C18_Witness ==
    /\ prog = "news"
    /\ pc = "done"
    /\ n_facet_probes = 2
    /\ n_counts = 3
    /\ n_pages = 1
    /\ last_request["n"] = "100"
    /\ result = "r2"

FreshBases == {str(b) : b \in Bases}

\* the query that asks for the work ids starting with a prefix
IdQuery(id) == <<"id:">> \o id \o <<"*">>

\* the work-id loop is at its head and the last response answered a prefix
AtPrefix == Queried /\ pc = "id_loop"

\* C19: whenever the last response reported total = 0 and the prefix has 4
\* or more digits, the next prefix queried is the prefix without its last
\* digit; whenever total = 0 and the prefix has fewer than 4 digits, the next
\* prefix queried is a fresh 5-digit base.
C19_ShrinkRule ==
    [][ (AtPrefix /\ total = 0) =>
          /\ last_request'["q"] = IdQuery(random_id')
          /\ IF Len(random_id) >= 4
             THEN random_id' = SubSeq(random_id, 1, Len(random_id) - 1)
             ELSE random_id' \in FreshBases
      ]_vars

\* the digits appended in the current round
UsedDigits == {random_sequence[i] : i \in 1..pos}

\* C20: whenever the last response reported total > 100 and fewer than 10
\* digits have been appended in the current round, the next prefix queried is
\* the prefix followed by the next digit of the shuffled sequence, a digit
\* not appended before in this round, and the cursor advances by one.
C20_GrowRule ==
    [][ (AtPrefix /\ total > 100 /\ pos < 10) =>
          /\ random_id' = random_id \o str(random_sequence[pos + 1])
          /\ random_sequence[pos + 1] \notin UsedDigits
          /\ random_sequence[pos + 1] \in 0..9
          /\ pos' = pos + 1
          /\ random_sequence' = random_sequence
          /\ last_request'["q"] = IdQuery(random_id')
      ]_vars

\* three digits were appended to a 5-digit base
C20_Witness ==
    /\ AtPrefix
    /\ pos = 3
    /\ random_id = str(54321) \o <<"7", "3", "9">>
    /\ total > 100

\* C21: the prefix is abandoned for a fresh 5-digit base with the cursor
\* reset to 0 exactly when the last response reported total > 100 and all 10
\* digits of the shuffled sequence have been appended in the current round.
C21_ExhaustionRule ==
    [][ AtPrefix =>
          /\ (total > 100 /\ pos = 10) =>
                random_id' \in FreshBases /\ pos' = 0
          /\ (pos # 0 /\ pos' = 0) => (total > 100 /\ pos = 10)
      ]_vars

\* C22: with the cursor at 0 a prefix is a fresh base or what is left of one
\* (5, 4 or 3 of its digits), and while the responses report total = 0 the
\* prefixes queried are the base, its first 4 digits, its first 3 digits and
\* then a fresh 5-digit base, the cursor staying at 0.
C22_ZeroRun ==
    /\ [](Queried /\ pos = 0 =>
            /\ Len(random_id) \in {3, 4, 5}
            /\ \E b \in FreshBases : IsPrefix(random_id, b)
            /\ last_request["q"] = IdQuery(random_id))
    /\ [][ (AtPrefix /\ pos = 0 /\ total = 0) =>
             /\ pos' = 0
             /\ Len(random_id) = 5 => random_id' = SubSeq(random_id, 1, 4)
             /\ Len(random_id) = 4 => random_id' = SubSeq(random_id, 1, 3)
             /\ Len(random_id) = 3 => random_id' \in FreshBases
         ]_vars

\* base 54321 was cut down to 543 and still no results
C22_Witness ==
    /\ AtPrefix
    /\ pos = 0
    /\ total = 0
    /\ random_id = <<"5", "4", "3">>
    /\ last_request["q"] = <<"id:", "5", "4", "3", "*">>

\* C23: the work-id loop has no iteration ceiling and no 'no result' return:
\* at the head of the loop, after a response reporting 0 (more than 100),
\* the next iteration can always be run and can again end at the head of the
\* loop with a response reporting 0 (more than 100), so a service that always
\* reports 0, or always more than 100, keeps it sending requests forever;
\* and the function returns only with a record.
C23_NoCeiling ==
    /\ (AtPrefix /\ total = 0) =>
          ENABLED (ById_Iterate /\ pc' = "id_loop" /\ total' = 0)
    /\ (AtPrefix /\ total > 100) =>
          ENABLED (ById_Iterate /\ pc' = "id_loop" /\ total' > 100)
    /\ (prog = "id" /\ pc = "id_loop" /\ ~Queried) =>
          /\ ENABLED (ById_Iterate /\ pc' = "id_loop" /\ total' = 0)
          /\ ENABLED (ById_Iterate /\ pc' = "id_loop" /\ total' > 100)
    /\ (prog = "id" /\ pc = "done") => result # None

\* a whole round of ten digits was used up and the loop goes on
C23_Witness ==
    /\ AtPrefix
    /\ pos = 10
    /\ Len(random_id) = 15
    /\ total > 100

Retried == n_gets - 1

\* C25 as claimed: one get call is retried at most 5 times, only on a
\* response with status 502, 503 or 504; a 4xx response is never retried;
\* and with the budget used up the call fails.
C25_Original ==
    (prog = "get" /\ n_gets > 0) =>
        /\ Retried <= 5
        /\ pc = "retry" => status \in {502, 503, 504}
        /\ status \in 400..499 => pc # "retry"
        /\ (Retried = 5 /\ status \in {502, 503, 504}) => pc = "raised"

\* C25 as amended: one get call is retried at most 5 times; a response with
\* status 502, 503 or 504 is always retried, or fails the call when 5 retries
\* were made; a 4xx response is handed to the caller without a retry unless
\* it is a 413 or 429 with a Retry-After header and retries are left, which
\* is retried within the same budget; the call fails only on a 502, 503 or
\* 504 that answers the fifth retry.
C25_RetryBudget ==
    (prog = "get" /\ n_gets > 0) =>
        /\ Retried <= 5
        /\ retries = 5 - (IF pc = "retry" THEN Retried + 1 ELSE Retried)
        /\ status \in {502, 503, 504} =>
              IF Retried = 5 THEN pc = "raised" ELSE pc = "retry"
        /\ status \in 400..499 =>
              IF status \in {413, 429} /\ retry_after /\ Retried < 5
              THEN pc = "retry" ELSE pc = "done"
        /\ status \notin 400..504 => pc = "done"
        /\ status = 500 => pc = "done"
        /\ pc = "raised" => Retried = 5 /\ status \in {502, 503, 504}

\* five retries were made and the sixth response is a 504 again
C25_Witness ==
    /\ prog = "get"
    /\ pc = "raised"
    /\ n_gets = 6
    /\ retries = 0
    /\ status = 504

-----------------------------------------------------------------------------
\* the first request of the probing loop has been sent and nothing since
FirstProbeSent == prog = "facets" /\ pc = "probe" /\ n_probes = 1

\* C26 as stated: the first probe request of get_random_work carries a
\* query composed with word-randomization only (the number is left out)
C26_Original ==
    FirstProbeSent =>
        \/ last_request["q"] = query
        \/ \E w \in Range(STOPWORDS) :
              last_request["q"] \in {Quoted(<<w>>), query \o <<" ">> \o Quoted(<<w>>)}

\* C26, amended: every probe request, the first included, carries the query
\* composed in the loop from both flags: a given query with add_word off and
\* add_number on is sent with the two-digit number appended; add_word on, or
\* no query, gives a quoted word; otherwise the query goes out as given
C26_FirstProbe ==
    (prog = "facets" /\ pc = "probe" /\ n_probes >= 1) =>
        LET q == last_request["q"]
        IN  /\ (Truthy(query) /\ ~add_word /\ add_number) =>
                  \E n \in RandomNumbers : q = query \o <<" ">> \o Quoted(Format02(n))
            /\ (Truthy(query) /\ add_word) =>
                  \E w \in Range(STOPWORDS) : q = query \o <<" ">> \o Quoted(<<w>>)
            /\ (Truthy(query) /\ ~add_word /\ ~add_number) => q = query
            /\ ~Truthy(query) => \E w \in Range(STOPWORDS) : q = Quoted(<<w>>)

\* the first probe of a call with a query and add_number only has gone out
\* with a number in its query
C26_Witness ==
    /\ FirstProbeSent
    /\ Truthy(query) /\ ~add_word /\ add_number
    /\ \E n \in RandomNumbers :
         last_request["q"] = query \o <<" ">> \o Quoted(Format02(n))

-----------------------------------------------------------------------------
\* the facet names the service offers that get_facets lets through
OfferedNames == {name \in UNION {Range(l) : l \in FacetLists} : ~Excluded(name)}

\* get_random_work_from_zone of the facets notebook is running
InFromZone == prog = "facets" /\ pc \in {"from_zone", "narrow"}

\* C27: the facet narrowing loop terminates whatever the service answers:
\* it runs at most as many iterations as there are distinct non-excluded
\* facet names on offer, and a call that entered get_random_work_from_zone
\* leaves it (by return or exception)
C27_FacetLoopTerminates ==
    /\ [](prog = "facets" => n_applied <= Cardinality(OfferedNames))
    /\ InFromZone ~> (prog = "facets" /\ pc \in {"done", "raised"})

\* the loop has run as many iterations as there are names on offer and the
\* total is still above the window
C27_Witness ==
    /\ prog = "facets" /\ pc = "narrow"
    /\ n_applied = Cardinality(OfferedNames)
    /\ total > WindowMax

-----------------------------------------------------------------------------
\* the 'search' values of the terms a listing of one facet returns
ProbeValues(facet) == {FacetTerms(facet)[i].search : i \in 1..Len(FacetTerms(facet))}

\* the facets the newspaper loop has taken from its priority list
Consumed ==
    {f \in Range(ArticleFacets) : f \notin Range(facets) /\ f \notin Range(Keys(kwargs))}

\* the newspaper loop has completed an iteration
ArticleNarrowed == prog = "news" /\ pc = "narrow"

\* C28 as stated: every facet the newspaper loop has consumed is set to one
\* of the 'search' values of the probe for that facet
C28_Original ==
    ArticleNarrowed =>
        \A f \in Consumed :
            /\ Has(params, LKey(f))
            /\ params[LKey(f)] \in ProbeValues(f)

\* C28, amended: every facet the newspaper loop has consumed is set to one
\* of the 'search' values of the probe for that facet, which the count
\* request then carries, or to None when the probe listed no terms, and
\* then the count request carries no constraint for that facet
C28_ValueFromProbe ==
    ArticleNarrowed =>
        \A f \in Consumed :
            /\ Has(params, LKey(f))
            /\ \/ /\ params[LKey(f)] \in ProbeValues(f)
                  /\ Has(last_request, LKey(f))
                  /\ last_request[LKey(f)] = params[LKey(f)]
               \/ /\ params[LKey(f)] = None
                  /\ ~Has(last_request, LKey(f))

\* two facets consumed: one set to a value of its probe, the other to None
C28_Witness ==
    /\ ArticleNarrowed
    /\ \E f, g \in Consumed :
         /\ params[LKey(f)] \in ProbeValues(f)
         /\ last_request[LKey(f)] = params[LKey(f)]
         /\ params[LKey(g)] = None
         /\ ~Has(last_request, LKey(g))

-----------------------------------------------------------------------------
\* p carries every facet constraint of the caller with the caller's value
CarriesOverrides(p) ==
    \A i \in 1..Len(kwargs) :
        Has(p, LKey(kwargs[i][1])) /\ p[LKey(kwargs[i][1])] = kwargs[i][2]

\* C29: in a call of get_random_work or get_random_article the request
\* parameters, and every request sent (probe, count, facet listing, page),
\* carry each facet constraint of the caller with its original value; no
\* step of the narrowing loops sets or removes a caller's key
C29_OverridesKept ==
    /\ []((prog \in {"facets", "news"} /\ pc # "call") =>
            /\ CarriesOverrides(params)
            /\ Requests > 0 => CarriesOverrides(last_request))
    /\ [][ (prog \in {"facets", "news"} /\ pc # "call") =>
             \A i \in 1..Len(kwargs) :
                 /\ kwargs' = kwargs
                 /\ Has(params', LKey(kwargs[i][1]))
                 /\ params'[LKey(kwargs[i][1])] = params[LKey(kwargs[i][1])] ]_vars

\* a call with a facet of the caller has applied a facet of its own and
\* fetched the page, the caller's constraint still in the page request
C29_Witness ==
    /\ prog \in {"facets", "news"}
    /\ pc = "done"
    /\ Len(kwargs) > 0
    /\ n_applied > 0
    /\ n_pages = 1
    /\ CarriesOverrides(last_request)

-----------------------------------------------------------------------------
\* the loop test of get_random_work_from_zone (facets notebook) is next
AtNarrowTest == prog = "facets" /\ pc = "narrow"

\* the non-excluded facet names of response d that are not applied, in the
\* order of the response
OpenNames(d) ==
    SelectSeq(ResponseFacetNames(d),
              LAMBDA name : ~Excluded(name) /\ name \notin Range(applied_facets))

\* C30: whenever the loop test of get_random_work_from_zone is evaluated,
\* the last request sent carried exactly the current params, `data` is an
\* answer to that request, `total` is the total of that answer, and `facets`
\* is the catalog of that answer without the applied facets
C30_LoopInvariant ==
    AtNarrowTest =>
        /\ last_request = params
        /\ data \in Answers(last_request)
        /\ ~TotalMissing(data) /\ total = int(Zone0(data).records["total"])
        /\ total_data = data
        /\ ~FacetsMissing(data)
        /\ [i \in 1..Len(facets) |-> facets[i].facet] = OpenNames(data)
        /\ \A i \in 1..Len(facets) :
              facets[i].terms = get_facet_terms(FacetTerms(facets[i].facet))
        /\ \A i \in 1..Len(applied_facets) : Has(params, LKey(applied_facets[i]))

\* the test is reached after one iteration, with a total still above the
\* window and a facet left to apply
C30_Witness ==
    /\ AtNarrowTest
    /\ n_applied = 1
    /\ total > WindowMax
    /\ Len(facets) = 1
    /\ last_request = params
    /\ total = TotalOf(data)

-----------------------------------------------------------------------------
\* the work-id loop is at its head (before or after its first request)
AtIdLoop == prog = "id" /\ pc = "id_loop"

\* C31: in the work-id loop the digits appended since the cursor was last 0
\* are pairwise distinct and the cursor counts them: a step that appends a
\* digit appends the next digit of the shuffled sequence, one not appended
\* in this round, and advances the cursor by one; any other step leaves the
\* cursor alone or puts it back to 0; the sequence itself never changes.
C31_OncePerRound ==
    /\ [](AtIdLoop =>
            /\ Range(random_sequence) = 0..9 /\ Len(random_sequence) = 10
            /\ \A i, j \in 1..pos :
                  i # j => random_sequence[i] # random_sequence[j])
    /\ [][ AtIdLoop =>
             LET appended == \E d \in 1..10 : random_id' = random_id \o <<DigitChar[d]>>
             IN  /\ random_sequence' = random_sequence
                 /\ appended =>
                      /\ pos' = pos + 1
                      /\ random_id' = random_id \o str(random_sequence[pos'])
                      /\ random_sequence[pos'] \notin UsedDigits
                 /\ ~appended => pos' \in {pos, 0}
         ]_vars

\* two digits were appended and one was sliced off again: the cursor still
\* counts two
C31_Witness ==
    /\ AtPrefix
    /\ pos = 2
    /\ random_id = str(54321) \o <<"7">>
    /\ total = 0

\* the next iteration picks a fresh base (line 65, 70 or 75)
FreshBaseNext ==
    /\ AtIdLoop /\ IdCond(total)
    /\ \/ total = 0 /\ (random_id = NoneId \/ Len(random_id) < 4)
       \/ pos = 10

\* C32: every iteration of the work-id loop that chooses a fresh 5-digit
\* base ends with the cursor at 0.
C32_FreshAtZero ==
    [][ (FreshBaseNext /\ last_request' # last_request) =>
            random_id' \in FreshBases /\ pos' = 0 ]_vars

\* C33: in the work-id loop every prefix queried is a string of 3 to 15
\* digits, the first prefix queried has exactly 5 digits, and the cursor
\* stays in 0..10.
C33_PrefixShape ==
    /\ [](prog = "id" =>
            /\ pos \in 0..10
            /\ Queried =>
                  /\ Len(random_id) \in 3..15
                  /\ Range(random_id) \subseteq Range(DigitChar)
                  /\ last_request["q"] = IdQuery(random_id))
    /\ [][ (AtIdLoop /\ ~Queried /\ Queried') => Len(random_id') = 5 ]_vars

\* a prefix of 15 digits was queried and reported no results
C33_Witness ==
    /\ Queried
    /\ Len(random_id) = 15
    /\ last_request["q"] = IdQuery(random_id)
    /\ total = 0

-----------------------------------------------------------------------------
\* a narrowing loop (facet strategy or newspapers) is at its test
AtNarrowing == prog \in {"facets", "news"} /\ pc \in {"retry", "narrow"}

\* the facet constraints (l-<facet> keys) of request parameters p
FacetKeys(p) ==
    DOMAIN p \cap {LKey(f) : f \in {"format", "year", "decade", "advtitle",
                                    "month", "word", "illustrated", "category",
                                    "title", "state"}}

\* C34: no backtracking. When an applied facet has brought the total to 0,
\* the only step left returns None: no facet is applied, no request (so no
\* page request) is sent and params stay as they are; and no step of a
\* narrowing loop removes a constraint from params or changes its value.
C34_NoBacktracking ==
    /\ [][ (AtNarrowing /\ pc = "narrow" /\ n_applied > 0 /\ total = 0) =>
             /\ pc' = "done"
             /\ result' = None
             /\ Requests' = Requests
             /\ n_pages' = 0
             /\ n_applied' = n_applied
             /\ params' = params /\ last_request' = last_request ]_vars
    /\ [][ AtNarrowing =>
             \A k \in FacetKeys(params) :
                 Has(params', k) /\ params'[k] = params[k] ]_vars
    /\ []((prog \in {"facets", "news"} /\ pc = "done" /\ total = 0) =>
            result = None /\ n_pages = 0)

\* a facet was applied, the total came back 0 and the call returned None
\* without a page request
C34_Witness ==
    /\ prog \in {"facets", "news"}
    /\ pc = "done"
    /\ n_applied = 1
    /\ total = 0
    /\ result = None
    /\ n_pages = 0
    /\ last_request["n"] = "0"

-----------------------------------------------------------------------------
\* q is the base query with at most one randomized token after it, or one
\* quoted stopword when there is no base query
OneTokenQuery(q, base) ==
    IF Truthy(base)
    THEN \/ q = base
         \/ \E tok \in WordTokens \cup NumberTokens : q = base \o <<" ">> \o tok
    ELSE q \in WordTokens

\* C35: in a call of get_random_work the query in params, and the query of
\* every probe request, is the caller's query followed by at most one
\* randomized token (one quoted stopword when the caller gave no query),
\* however many probes were sent before; the caller's query never changes
\* while the probing loop runs.
C35_NoAccumulation ==
    /\ []((prog = "facets" /\ pc = "probe") =>
            /\ OneTokenQuery(params["q"], query)
            /\ n_probes > 0 => OneTokenQuery(last_request["q"], query))
    /\ [][ (prog = "facets" /\ pc = "probe" /\ pc' = "probe") =>
             query' = query ]_vars

\* the third probe of a call with a query and add_word has gone out, with
\* one stopword after the query
C35_Witness ==
    /\ prog = "facets" /\ pc = "probe"
    /\ n_probes = 3
    /\ Truthy(query) /\ add_word
    /\ \E tok \in WordTokens : last_request["q"] = query \o <<" ">> \o tok

-----------------------------------------------------------------------------
\* C36: in get_random_article the facet listing never changes params: params
\* never hold the 'facet' flag, a facet listing leaves every key of params
\* as it was (the loop then adds the one l- key of the facet listed), and no
\* count request and no page request carries the flag: the last request
\* sent carries it only when it was a facet listing, which is the last
\* request only when the listing ended the call with an exception.
C36_ProbeOnCopy ==
    /\ []((prog = "news" /\ pc # "call") =>
            /\ ~Has(params, "facet")
            /\ pc \in {"retry", "narrow", "done"} => ~Has(last_request, "facet")
            /\ Has(last_request, "facet") =>
                  /\ pc = "raised"
                  /\ n_facet_probes = n_counts
                  /\ Pop(last_request, "facet") = Sent(params))
    /\ [][ (prog = "news" /\ n_facet_probes' # n_facet_probes) =>
             /\ \A k \in DOMAIN params : Has(params', k) /\ params'[k] = params[k]
             /\ Cardinality(DOMAIN params' \ DOMAIN params) <= 1
             /\ DOMAIN params' \ DOMAIN params \subseteq {LKey(facets[Len(facets)])}
         ]_vars

\* one facet was listed and set, the count request after it went out without
\* the 'facet' flag
C36_Witness ==
    /\ prog = "news" /\ pc = "narrow"
    /\ n_facet_probes = 1
    /\ n_counts = 2
    /\ FacetKeys(params) # {}
    /\ ~Has(params, "facet")
    /\ ~Has(last_request, "facet")

-----------------------------------------------------------------------------
\* the facets the loop of the second copy has chosen, in order
ChosenNames2 ==
    LET dicts == SelectSeq(applied_facets, LAMBDA a : a.kind = "dict")
    IN  [i \in 1..Len(dicts) |-> dicts[i].facet]

\* C37: in the second copy of get_random_work_from_zone no facet name is
\* chosen twice in a call, and the catalog holds no facet chosen before.
C37_NeverTwice ==
    prog = "zone2" =>
        /\ NoDuplicates(ChosenNames2)
        /\ pc = "loop2" =>
              \A i \in 1..Len(facets) : facets[i].facet \notin Range(ChosenNames2)

\* the loop test of the second copy is next, the catalog is empty and the
\* last response holds a page of works
EmptyCatalogWithPage ==
    /\ prog = "zone2" /\ pc = "loop2"
    /\ Len(facets) = 0
    /\ Has(Zone0(data).records, "work")
    /\ Len(Zone0(data).records["work"]) > 0

\* C38: in the second copy of get_random_work_from_zone an empty catalog
\* ends the loop: the next step applies no facet, raises nothing and returns
\* a work of the current page.
C38_EmptyCatalogEnds ==
    [][ EmptyCatalogWithPage =>
          /\ pc' = "done"
          /\ n_applied' = n_applied
          /\ result' \in Range(Zone0(data).records["work"]) ]_vars

====
